---- MODULE Spec2Model ----
(***************************************************************************)
(* Model of the catalog view controller of the Material Library front end  *)
(* (src/app.js): view state, catalog loads, filtering and search,          *)
(* rendering, the apply action, toasts and the host bridge.                *)
(*                                                                         *)
(* Texts are sequences of one-character strings, so that toLowerCase(),    *)
(* trim() and includes() are computed and not assumed.                     *)
(***************************************************************************)
EXTENDS Integers, Sequences, FiniteSets, TLC

(***************************************************************************)
(* Bounds of the model.                                                    *)
(***************************************************************************)
MaxLoads == 2
MaxToasts == 2
MaxHostCalls == 1

(***************************************************************************)
(* JavaScript values.                                                      *)
(***************************************************************************)
\* the value of a missing text property, and of a missing tags property
Undefined == <<"undefined">>
UndefinedTags == << <<"undefined">> >>

kayu == <<"k", "a", "y", "u">>
batik == <<"b", "a", "t", "i", "k">>
batu == <<"b", "a", "t", "u">>
bambu == <<"b", "a", "m", "b", "u">>
rotan == <<"r", "o", "t", "a", "n">>
all == <<"a", "l", "l">>

\* String.prototype.toLowerCase, on the characters the model uses
LowerChar(c) ==
  CASE c = "A" -> "a"
    [] c = "B" -> "b"
    [] c = "K" -> "k"
    [] OTHER -> c

toLowerCase(s) == [i \in 1..Len(s) |-> LowerChar(s[i])]

\* String.prototype.trim: strips the white space at both ends
RECURSIVE trim(_)
trim(s) ==
  IF s = <<>> THEN s
  ELSE IF Head(s) = " " THEN trim(Tail(s))
  ELSE IF s[Len(s)] = " " THEN trim(SubSeq(s, 1, Len(s) - 1))
  ELSE s

\* String.prototype.includes: q is a contiguous part of s
includes(s, q) ==
  \E i \in 0..(Len(s) - Len(q)) : SubSeq(s, i + 1, i + Len(q)) = q

\* Array.prototype.includes: x is an element of the array, compared exactly
arrayIncludes(arr, x) == \E i \in 1..Len(arr) : arr[i] = x

(***************************************************************************)
(* The materials the model draws from.                                     *)
(***************************************************************************)
MatA == [id |-> "a", title |-> <<"A">>, description |-> <<>>,
         tags |-> <<kayu>>, board |-> <<"x">>]
\* the entry "a" as the host updates it; its first tag is not lower case
MatA2 == [id |-> "a", title |-> <<"A">>, description |-> <<"k">>,
          tags |-> << <<"K", "a", "y", "u">>, batu >>, board |-> <<"x">>]
MatB == [id |-> "b", title |-> <<"B">>, description |-> <<>>,
         tags |-> <<batu>>, board |-> <<"x">>]
\* the object {"id": "x"}: every property but id is missing
MatX == [id |-> "x", title |-> Undefined, description |-> Undefined,
         tags |-> UndefinedTags, board |-> Undefined]

\* an entry that has the shape of a Material
IsMaterial(m) ==
  /\ m.title # Undefined
  /\ m.description # Undefined
  /\ m.tags # UndefinedTags
  /\ m.board # Undefined

\* the catalog documents a fetch can deliver; has = FALSE: the document has
\* no materials property
Docs == { [has |-> TRUE, materials |-> <<MatA, MatB>>],
          [has |-> FALSE, materials |-> <<>>],
          [has |-> TRUE, materials |-> <<MatX>>] }

\* the texts the host passes to updateMaterial, with what JSON.parse makes of
\* them
ParseError == [kind |-> "SyntaxError"]
Null == [kind |-> "null"]
Obj(m) == [kind |-> "object", value |-> m]
Payloads == {"{bad", "null", "A2", "X"}
JSONparse(text) ==
  CASE text = "{bad" -> ParseError
    [] text = "null" -> Null
    [] text = "A2" -> Obj(MatA2)
    [] text = "X" -> Obj(MatX)

\* the texts typed into the search input
Queries == { <<>>, <<" ">>, <<"K">>, <<" ", "K">> }
\* the ids apply is called with
ApplyIds == {"a", "zz"}

\* JSON.stringify of an entry: the properties that are not undefined
DefinedProps(m) ==
  {"id"} \cup (IF m.title # Undefined THEN {"title"} ELSE {})
         \cup (IF m.description # Undefined THEN {"description"} ELSE {})
         \cup (IF m.tags # UndefinedTags THEN {"tags"} ELSE {})
         \cup (IF m.board # Undefined THEN {"board"} ELSE {})
\* variant: the payload carries the id only
JSONstringify_IdOnly(m) == [p \in {"id"} |-> m[p]]

JSONstringify(m) == [p \in DefinedProps(m) |-> m[p]]

(***************************************************************************)
(* State.                                                                  *)
(***************************************************************************)
VARIABLES
  materials,          \* state.materials
  filteredMaterials,  \* state.filteredMaterials
  activeFilter,       \* state.activeFilter
  searchQuery,        \* state.searchQuery
  isLoading,          \* state.isLoading
  materialsGrid,      \* content of elements.materialsGrid
  materialCount,      \* text of elements.materialCount (-1: the page's markup)
  loadingDisplay,     \* elements.loadingState.style.display
  filterButtons,      \* the .filter-tag buttons of elements.filtersContainer
  searchInput,        \* elements.searchInput.value
  timeout,            \* the timer id debounce holds (0: none that is pending)
  timers,             \* ids of the pending timers of the search input
  toasts,             \* children of elements.toastContainer
  toastTimers,        \* the id of the removal timer of each toast, in that order
  inflight,           \* the loads that are suspended at an await
  loads,              \* number of loads started
  hostCalls           \* payloads passed to sketchup.applyMaterial

state == <<materials, filteredMaterials, activeFilter, searchQuery, isLoading>>
dom == <<materialsGrid, materialCount, loadingDisplay, filterButtons,
         searchInput, toasts, toastTimers>>
vars == <<state, dom, timeout, timers, inflight, loads, hostCalls>>

(***************************************************************************)
(* Filtering and search (applyFilters).                                    *)
(***************************************************************************)
\* the tag filter reads material.tags.includes of every entry
tagFilterThrows(ms, f) ==
  f # all /\ \E i \in 1..Len(ms) : ms[i].tags = UndefinedTags

\* variant: the tags are compared with the letter case ignored
tagFilterKeeps_AnyCase(m, f) ==
  \E i \in 1..Len(m.tags) : toLowerCase(m.tags[i]) = toLowerCase(f)

tagFilterKeeps(m, f) == arrayIncludes(m.tags, f)

tagFilter(ms, f) ==
  IF f = all THEN ms ELSE SelectSeq(ms, LAMBDA m : tagFilterKeeps(m, f))

\* the search filter is applied when the trimmed query is not empty
searchApplies(q) == trim(q) # <<>>

\* the search predicate of one entry, with query already in lower case; the
\* four tests are evaluated left to right and stop at the first that holds
searchMatches(m, query) ==
  \/ includes(toLowerCase(m.title), query)
  \/ includes(toLowerCase(m.description), query)
  \/ \E i \in 1..Len(m.tags) : includes(toLowerCase(m.tags[i]), query)
  \/ includes(toLowerCase(m.board), query)

\* the search predicate reads a property that is undefined before any of
\* its tests holds
searchThrowsOn(m, query) ==
  \/ m.title = Undefined
  \/ /\ ~includes(toLowerCase(m.title), query)
     /\ \/ m.description = Undefined
        \/ /\ ~includes(toLowerCase(m.description), query)
           /\ \/ m.tags = UndefinedTags
              \/ /\ \A i \in 1..Len(m.tags) :
                       ~includes(toLowerCase(m.tags[i]), query)
                 /\ m.board = Undefined

\* variant: the query is compared as typed, not in lower case
searchFilter_AsTyped(ms, q) ==
  IF searchApplies(q)
  THEN SelectSeq(ms, LAMBDA m : searchMatches(m, q))
  ELSE ms

searchFilter(ms, q) ==
  IF searchApplies(q)
  THEN SelectSeq(ms, LAMBDA m : searchMatches(m, toLowerCase(q)))
  ELSE ms

searchFilterThrows(ms, q) ==
  /\ searchApplies(q)
  /\ \E i \in 1..Len(ms) : searchThrowsOn(ms[i], toLowerCase(q))

\* the list applyFilters computes: the tag filter, then the search filter
Filtered(ms, f, q) == searchFilter(tagFilter(ms, f), q)

\* applyFilters throws before it assigns state.filteredMaterials
filterThrows(ms, f, q) ==
  \/ tagFilterThrows(ms, f)
  \/ searchFilterThrows(tagFilter(ms, f), q)

(***************************************************************************)
(* Rendering (renderMaterials, createMaterialCard, showError).             *)
(***************************************************************************)
InitialMarkup == [kind |-> "markup", cards |-> <<>>]
EmptyState == [kind |-> "empty-state", cards |-> <<>>]
ErrorState == [kind |-> "error", cards |-> <<>>]

\* the first n elements of a sequence (Array.prototype.slice(0, n))
slice0(arr, n) == SubSeq(arr, 1, IF Len(arr) < n THEN Len(arr) ELSE n)

createMaterialCard(m) ==
  [id |-> m.id, title |-> m.title, description |-> m.description,
   tags |-> slice0(m.tags, 3), board |-> m.board]

\* createMaterialCard reads material.tags.slice
renderThrows(fm) ==
  \E i \in 1..Len(fm) : fm[i].tags = UndefinedTags

Cards(fm) ==
  [kind |-> "cards", cards |-> [i \in 1..Len(fm) |-> createMaterialCard(fm[i])]]

\* variant: an empty list is rendered as a container without cards
renderedGrid_NoPlaceholder(fm, g) ==
  IF renderThrows(fm) THEN g ELSE Cards(fm)

\* the content of the grid after renderMaterials ran on fm, from content g
renderedGrid(fm, g) ==
  IF Len(fm) = 0 THEN EmptyState
  ELSE IF renderThrows(fm) THEN g
  ELSE Cards(fm)

\* the count text after renderMaterials ran on fm, from text c
renderedCount(fm, c) ==
  IF Len(fm) = 0 THEN 0
  ELSE IF renderThrows(fm) THEN c
  ELSE Len(fm)

\* renderMaterials: hides the loading indicator, then writes grid and count
renderMaterials(fm) ==
  /\ loadingDisplay' = "none"
  /\ materialsGrid' = renderedGrid(fm, materialsGrid)
  /\ materialCount' = renderedCount(fm, materialCount)

\* applyFilters on the list ms, filter f and query q: the part of the handler
\* that writes state.filteredMaterials and the grid
applyFilters(ms, f, q) ==
  IF filterThrows(ms, f, q)
  THEN UNCHANGED <<filteredMaterials, materialsGrid, materialCount,
                   loadingDisplay>>
  ELSE /\ filteredMaterials' = Filtered(ms, f, q)
       /\ renderMaterials(Filtered(ms, f, q))

\* applyFilters ends with an exception
applyFiltersThrows(ms, f, q) ==
  filterThrows(ms, f, q) \/ renderThrows(Filtered(ms, f, q))

(***************************************************************************)
(* Filter buttons (generateFilterTags).                                    *)
(***************************************************************************)
mainCategories == <<kayu, batik, batu, bambu, rotan>>

\* generateFilterTags reads material.tags.forEach of every entry
generateFilterTagsThrows(ms) ==
  \E i \in 1..Len(ms) : ms[i].tags = UndefinedTags

allTags(ms) ==
  UNION { {ms[i].tags[j] : j \in 1..Len(ms[i].tags)} : i \in 1..Len(ms) }

\* the allow-list categories that occur among the tags, in allow-list order
categoryTags(ms) == SelectSeq(mainCategories, LAMBDA cat : cat \in allTags(ms))

newButton(tag) == [filter |-> tag, active |-> FALSE, listening |-> FALSE]

\* the buttons are inserted right after the "all" button, the first one
insertAfterAll(ms, buttons) ==
  <<Head(buttons)>>
    \o [i \in 1..Len(categoryTags(ms)) |-> newButton(categoryTags(ms)[i])]
    \o Tail(buttons)

\* every button of the bar gets a click listener
addClickListeners(buttons) ==
  [i \in 1..Len(buttons) |-> [buttons[i] EXCEPT !.listening = TRUE]]

\* the filter bar after generateFilterTags ran on the list ms
generateFilterTags(ms, buttons) == addClickListeners(insertAfterAll(ms, buttons))

\* setActiveFilter: the class "active" is on the buttons of that filter
toggleActive(buttons, f) ==
  [i \in 1..Len(buttons) |->
     [buttons[i] EXCEPT !.active = (buttons[i].filter = f)]]

(***************************************************************************)
(* Initial state: the page is parsed, the state object exists and the      *)
(* DOMContentLoaded handler has started the first load, which is suspended *)
(* at its fetch.                                                           *)
(***************************************************************************)
Init ==
  /\ materials = <<>>
  /\ filteredMaterials = <<>>
  /\ activeFilter = all
  /\ searchQuery = <<>>
  /\ isLoading = TRUE
  /\ materialsGrid = InitialMarkup
  /\ materialCount = -1
  /\ loadingDisplay = "flex"
  /\ filterButtons = << [filter |-> all, active |-> TRUE, listening |-> FALSE] >>
  /\ searchInput = <<>>
  /\ timeout = 0
  /\ timers = {}
  /\ toasts = <<>>
  /\ toastTimers = <<>>
  /\ inflight = <<"DOMContentLoaded">>
  /\ loads = 1
  /\ hostCalls = <<>>

(***************************************************************************)
(* Catalog loads (fetchLibrary, refreshLibrary).  A load is suspended at   *)
(* await fetch(...) and then at await response.json(); it reads and writes *)
(* nothing between the two, so one step takes a load from its suspension   *)
(* to its end.  inflight lists the suspended loads in the order they were  *)
(* started, each under the name of the handler that started it.            *)
(***************************************************************************)
\* variant: the end of a load drops the loads started before it as well
RemoveAt_DropEarlier(seq, i) == SubSeq(seq, i + 1, Len(seq))

RemoveAt(seq, i) == SubSeq(seq, 1, i - 1) \o SubSeq(seq, i + 1, Len(seq))

\* refreshLibrary: fetchLibrary runs up to its first await
refreshLibrary ==
  /\ loads < MaxLoads
  /\ isLoading' = TRUE
  /\ loadingDisplay' = "flex"
  /\ inflight' = Append(inflight, "refreshLibrary")
  /\ loads' = loads + 1
  /\ UNCHANGED <<materials, filteredMaterials, activeFilter, searchQuery,
                 materialsGrid, materialCount, filterButtons, searchInput,
                 toasts, toastTimers, timeout, timers, hostCalls>>

\* showError(message)
showError == materialsGrid' = ErrorState

\* the catch block of fetchLibrary, for the load at position i
catchLoad(i) ==
  /\ showError
  /\ isLoading' = FALSE
  /\ inflight' = RemoveAt(inflight, i)

\* fetch rejects, the status of the response is not a success, or
\* response.json() rejects because the body is not JSON
loadFails(i) ==
  /\ catchLoad(i)
  /\ UNCHANGED <<materials, filteredMaterials, activeFilter, searchQuery,
                 materialCount, loadingDisplay, filterButtons, searchInput,
                 toasts, toastTimers, timeout, timers, loads, hostCalls>>

\* variant: a document without materials keeps the materials there are
loadedMaterials_KeepOnMissing(d) == IF d.has THEN d.materials ELSE materials

\* data.materials || []
loadedMaterials(d) == IF d.has THEN d.materials ELSE <<>>

\* response.json() resolves with the document d: the rest of fetchLibrary.
\* When generateFilterTags has read the tags of every entry, no card of
\* renderMaterials can throw.
loadSucceeds(i, d) ==
  /\ materials' = loadedMaterials(d)
  /\ filteredMaterials' = loadedMaterials(d)
  /\ IF generateFilterTagsThrows(loadedMaterials(d))
     THEN /\ catchLoad(i)
          /\ UNCHANGED <<filterButtons, materialCount, loadingDisplay>>
     ELSE /\ filterButtons' = generateFilterTags(loadedMaterials(d), filterButtons)
          /\ renderMaterials(loadedMaterials(d))
          /\ isLoading' = FALSE
          /\ inflight' = RemoveAt(inflight, i)
  /\ UNCHANGED <<activeFilter, searchQuery, searchInput, toasts, toastTimers,
                 timeout, timers,
                 loads, hostCalls>>

(***************************************************************************)
(* Filter clicks and search input (setActiveFilter, initEventListeners).   *)
(***************************************************************************)
\* setActiveFilter(filter); an exception of applyFilters ends the handler
setActiveFilter(filter) ==
  /\ activeFilter' = filter
  /\ filterButtons' = toggleActive(filterButtons, filter)
  /\ applyFilters(materials, filter, searchQuery)
  /\ UNCHANGED <<materials, searchQuery, isLoading, searchInput, toasts,
                 toastTimers,
                 timeout, timers, inflight, loads, hostCalls>>

\* a click on the button at position i of the filter bar; the buttons have
\* their click listener from generateFilterTags
filterClick(i) ==
  /\ filterButtons[i].listening
  /\ setActiveFilter(filterButtons[i].filter)

\* variant: the pending timer is not cancelled
clearTimeout_Noop(ts, id) == ts

\* clearTimeout(id): the timer of that id is pending no longer
clearTimeout(ts, id) == ts \ {id}

\* setTimeout: the id of the new timer, the least that no pending timer has
setTimeout(ts) ==
  CHOOSE id \in 1..(Cardinality(ts) + 1) :
    id \notin ts /\ \A j \in 1..(id - 1) : j \in ts

\* an input event: the text of the input is now text, and debounce clears
\* the pending timer and sets a new one
input(text) ==
  /\ text # searchInput
  /\ searchInput' = text
  /\ timeout' = setTimeout(clearTimeout(timers, timeout))
  /\ timers' = clearTimeout(timers, timeout) \cup {timeout'}
  /\ UNCHANGED <<state, materialsGrid, materialCount, loadingDisplay,
                 filterButtons, toasts, toastTimers, inflight, loads, hostCalls>>

\* the debounce timer fires: the handler reads the text of the input
later(t) ==
  /\ t \in timers
  /\ timers' = clearTimeout(timers, timeout) \ {t}
  /\ timeout' = 0
  /\ searchQuery' = searchInput
  /\ applyFilters(materials, activeFilter, searchInput)
  /\ UNCHANGED <<materials, activeFilter, isLoading, filterButtons,
                 searchInput, toasts, toastTimers, inflight, loads, hostCalls>>

\* variant: Escape clears the input and leaves the rest to the debounce timer
escape_Debounced ==
  /\ searchInput' = <<>>
  /\ timeout' = setTimeout(clearTimeout(timers, timeout))
  /\ timers' = clearTimeout(timers, timeout) \cup {timeout'}
  /\ UNCHANGED <<state, materialsGrid, materialCount, loadingDisplay,
                 filterButtons, toasts, toastTimers, inflight, loads,
                 hostCalls>>

\* variant: Escape clears the input but not state.searchQuery
escape_KeepsQuery ==
  /\ searchInput' = <<>>
  /\ applyFilters(materials, activeFilter, searchQuery)
  /\ UNCHANGED <<materials, activeFilter, searchQuery, isLoading,
                 filterButtons, toasts, toastTimers, timeout, timers,
                 inflight, loads, hostCalls>>

\* keydown with the key Escape
escape ==
  /\ searchInput' = <<>>
  /\ searchQuery' = <<>>
  /\ applyFilters(materials, activeFilter, <<>>)
  /\ UNCHANGED <<materials, activeFilter, isLoading, filterButtons, toasts,
                 toastTimers,
                 timeout, timers, inflight, loads, hostCalls>>

(***************************************************************************)
(* The bridge and the apply action (updateMaterial, applyMaterial,         *)
(* showMessage, showToast).                                                *)
(***************************************************************************)
\* variant: the comparison of the ids never holds
findIndex_Never(ms, id) == 0

\* Array.prototype.findIndex on the id: the first position, 0 for none
findIndex(ms, id) ==
  IF \E i \in 1..Len(ms) : ms[i].id = id
  THEN CHOOSE i \in 1..Len(ms) :
         ms[i].id = id /\ \A j \in 1..(i - 1) : ms[j].id # id
  ELSE 0

\* variant: the entry is pushed whether or not the id is known
upserted_AlwaysPush(ms, m) == Append(ms, m)

\* the list after the replace-or-push of updateMaterial
upserted(ms, m) ==
  IF findIndex(ms, m.id) # 0
  THEN [ms EXCEPT ![findIndex(ms, m.id)] = m]
  ELSE Append(ms, m)

\* updateMaterial(materialJson); its catch block logs and returns
updateMaterial(text) ==
  /\ IF JSONparse(text).kind = "object"
     THEN /\ materials' = upserted(materials, JSONparse(text).value)
          /\ applyFilters(materials', activeFilter, searchQuery)
     ELSE UNCHANGED <<materials, filteredMaterials, materialsGrid,
                     materialCount, loadingDisplay>>
  /\ UNCHANGED <<activeFilter, searchQuery, isLoading, filterButtons,
                 searchInput, toasts, toastTimers, timeout, timers, inflight,
                 loads, hostCalls>>

\* the ids of the timers in a list of timer ids
timerIds(ts) == {ts[i] : i \in 1..Len(ts)}

\* variant: the new toast replaces the content of the container
showToast_Replace(type) ==
  /\ toasts' = <<type>>
  /\ toastTimers' = <<setTimeout(timerIds(toastTimers))>>

\* showToast appends one toast and sets the timer that removes it
showToast(type) ==
  /\ toasts' = Append(toasts, type)
  /\ toastTimers' = Append(toastTimers, setTimeout(timerIds(toastTimers)))

\* applyMaterial(materialId); hostPresent: typeof sketchup !== 'undefined'
\* holds at the call
applyMaterial(id, hostPresent) ==
  /\ IF findIndex(materials, id) = 0
     THEN /\ Len(toasts) < MaxToasts
          /\ showToast("error")
          /\ UNCHANGED hostCalls
     ELSE IF hostPresent
     THEN /\ Len(hostCalls) < MaxHostCalls
          /\ hostCalls' =
               Append(hostCalls, JSONstringify(materials[findIndex(materials, id)]))
          /\ UNCHANGED <<toasts, toastTimers>>
     ELSE /\ Len(toasts) < MaxToasts
          /\ showToast("success")
          /\ UNCHANGED hostCalls
  /\ UNCHANGED <<state, materialsGrid, materialCount, loadingDisplay,
                 filterButtons, searchInput, timeout, timers, inflight, loads>>

\* showMessage(message, type)
showMessage(type) ==
  /\ Len(toasts) < MaxToasts
  /\ showToast(type)
  /\ UNCHANGED <<state, materialsGrid, materialCount, loadingDisplay,
                 filterButtons, searchInput, timeout, timers, inflight, loads,
                 hostCalls>>

\* the position of the toast whose timer has the id k
toastOf(k) == CHOOSE i \in 1..Len(toastTimers) : toastTimers[i] = k

\* the timer k of a toast fires: after 3 seconds the leaving animation of
\* the toast is set, 300 ms later toast.remove()
toastTimer(k) ==
  /\ k \in timerIds(toastTimers)
  /\ toasts' = RemoveAt(toasts, toastOf(k))
  /\ toastTimers' = RemoveAt(toastTimers, toastOf(k))
  /\ UNCHANGED <<state, materialsGrid, materialCount, loadingDisplay,
                 filterButtons, searchInput, timeout, timers, inflight, loads,
                 hostCalls>>

Next ==
  \/ refreshLibrary
  \/ \E i \in 1..Len(inflight) : loadFails(i)
  \/ \E i \in 1..Len(inflight), d \in Docs : loadSucceeds(i, d)
  \/ \E i \in 1..Len(filterButtons) : filterClick(i)
  \/ \E text \in Queries : input(text)
  \/ \E t \in timers : later(t)
  \/ escape
  \/ \E text \in Payloads : updateMaterial(text)
  \/ \E id \in ApplyIds, hostPresent \in BOOLEAN : applyMaterial(id, hostPresent)
  \/ \E type \in {"success", "error"} : showMessage(type)
  \/ \E k \in 1..MaxToasts : toastTimer(k)

Spec == Init /\ [][Next]_vars

\* the view alone: loads, filter clicks, search and updates from the host
ViewNext ==
  \/ refreshLibrary
  \/ \E i \in 1..Len(inflight) : loadFails(i)
  \/ \E i \in 1..Len(inflight), d \in Docs : loadSucceeds(i, d)
  \/ \E i \in 1..Len(filterButtons) : filterClick(i)
  \/ \E text \in Queries : input(text)
  \/ \E t \in timers : later(t)
  \/ escape
  \/ \E text \in Payloads : updateMaterial(text)

ViewSpec == Init /\ [][ViewNext]_vars

\* the bridge alone: the first load, updates from the host, apply and the
\* toasts
BridgeNext ==
  \/ \E i \in 1..Len(inflight) : loadFails(i)
  \/ \E i \in 1..Len(inflight), d \in Docs : loadSucceeds(i, d)
  \/ \E text \in Payloads : updateMaterial(text)
  \/ \E id \in ApplyIds, hostPresent \in BOOLEAN : applyMaterial(id, hostPresent)
  \/ \E type \in {"success", "error"} : showMessage(type)
  \/ \E k \in 1..MaxToasts : toastTimer(k)

BridgeSpec == Init /\ [][BridgeNext]_vars

\* the bridge, where a timer that is set fires
BridgeFairSpec ==
  /\ BridgeSpec
  /\ \A k \in 1..MaxToasts : WF_vars(toastTimer(k))

(***************************************************************************)
(* Vocabulary of the properties, defined without the operators above.      *)
(***************************************************************************)
Positions(seq) == 1..Len(seq)

\* every entry of the list is a Material
AllMaterials(ms) == \A i \in Positions(ms) : IsMaterial(ms[i])

\* the k-th smallest element of a set of positions
Nth(ps, k) == CHOOSE i \in ps : Cardinality({j \in ps : j <= i}) = k

\* the subsequence of seq at the positions ps, in the order of seq
Pick(seq, ps) == [k \in 1..Cardinality(ps) |-> seq[Nth(ps, k)]]

Elements(seq) == {seq[i] : i \in Positions(seq)}

HasTag(m, f) == \E j \in Positions(m.tags) : m.tags[j] = f

\* the subsequence of ms a tag filter f is to keep
WithTag(ms, f) ==
  IF f = all THEN ms ELSE Pick(ms, {k \in Positions(ms) : HasTag(ms[k], f)})

SameLetter(c, d) ==
  c = d \/ {c, d} \in {{"a", "A"}, {"b", "B"}, {"k", "K"}}

\* q occurs in s as a contiguous part, letter case ignored
OccursIn(q, s) ==
  \E i \in 0..(Len(s) - Len(q)) :
    \A k \in Positions(q) : SameLetter(s[i + k], q[k])

SearchHit(m, q) ==
  \/ OccursIn(q, m.title)
  \/ OccursIn(q, m.description)
  \/ \E j \in Positions(m.tags) : OccursIn(q, m.tags[j])
  \/ OccursIn(q, m.board)

\* the subsequence of ms a search for q is to keep
WithText(ms, q) == Pick(ms, {k \in Positions(ms) : SearchHit(ms[k], q)})

\* q has a character that is not white space
NonBlank(q) == \E i \in Positions(q) : q[i] # " "

\* a step of a handler that calls applyFilters
RunsApplyFilters ==
  \/ \E t \in timers : later(t)
  \/ escape
  \/ \E i \in Positions(filterButtons) : filterClick(i)
  \/ \E text \in Payloads :
       JSONparse(text).kind = "object" /\ updateMaterial(text)

\* the step in which the load at position i ends in the catch block
LoadEndsInError(i) ==
  \/ loadFails(i)
  \/ \E d \in Docs : loadSucceeds(i, d) /\ materialsGrid' = ErrorState

\* the payload text is not a Material
Malformed(text) ==
  IF JSONparse(text).kind = "object"
  THEN ~IsMaterial(JSONparse(text).value)
  ELSE TRUE

\* the payload handed to the host carries every property of m
Carries(payload, m) ==
  /\ "id" \in DOMAIN payload /\ payload.id = m.id
  /\ IF "title" \in DOMAIN payload
     THEN payload.title = m.title ELSE m.title = Undefined
  /\ IF "description" \in DOMAIN payload
     THEN payload.description = m.description ELSE m.description = Undefined
  /\ IF "tags" \in DOMAIN payload
     THEN payload.tags = m.tags ELSE m.tags = UndefinedTags
  /\ IF "board" \in DOMAIN payload
     THEN payload.board = m.board ELSE m.board = Undefined

(***************************************************************************)
(* C1: in every reachable state filteredMaterials is what the filtering    *)
(* algorithm computes from the current materials, activeFilter and         *)
(* searchQuery (read over lists of Materials).                             *)
(***************************************************************************)
C1_FilteredIsRecomputation ==
  AllMaterials(materials) =>
    filteredMaterials = Filtered(materials, activeFilter, searchQuery)

(***************************************************************************)
(* C2: with an empty search query, a click on the control of filter f      *)
(* leaves filteredMaterials equal to the subsequence of the Materials      *)
(* whose tags contain f exactly, in the order of materials; for "all" it   *)
(* is materials itself.                                                    *)
(***************************************************************************)
C2_TagFilterIsExactSubsequence ==
  [][\A i \in Positions(filterButtons) :
       (filterClick(i) /\ searchQuery = <<>> /\ AllMaterials(materials))
         => filteredMaterials' = WithTag(materials, filterButtons[i].filter)]_vars

\* a click on "kayu" has kept the one entry tagged kayu
C2_Witness ==
  /\ activeFilter = kayu
  /\ searchQuery = <<>>
  /\ materials = <<MatA, MatB>>
  /\ filteredMaterials = <<MatA>>

(***************************************************************************)
(* C3 as stated: for every non-empty search query, applyFilters yields the *)
(* subsequence of the tag filter's output in which the query occurs, case  *)
(* ignored, in title, description, a tag or board.                         *)
(***************************************************************************)
C3_Original ==
  [][(RunsApplyFilters /\ searchQuery' # <<>> /\ AllMaterials(materials'))
       => filteredMaterials' =
            WithText(WithTag(materials', activeFilter'), searchQuery')]_vars

(***************************************************************************)
(* C3 amended: for every search query that has a character other than      *)
(* white space, applyFilters yields the subsequence of the tag filter's    *)
(* output in which the query occurs, case ignored, in title, description,  *)
(* a tag or board; its entries are those in both the tag filter's result   *)
(* and the search result.  A query of white space only filters nothing.    *)
(***************************************************************************)
C3_SearchWithinTagFilter ==
  [][(RunsApplyFilters /\ AllMaterials(materials'))
       => /\ NonBlank(searchQuery') =>
               /\ filteredMaterials' =
                    WithText(WithTag(materials', activeFilter'), searchQuery')
               /\ Elements(filteredMaterials') =
                    Elements(WithTag(materials', activeFilter'))
                      \cap Elements(WithText(materials', searchQuery'))
          /\ (searchQuery' # <<>> /\ ~NonBlank(searchQuery')) =>
               filteredMaterials' = WithTag(materials', activeFilter')]_vars

\* the query "K" under the filter "batu" has kept the entry whose
\* description has a "k", and dropped the other entry tagged batu
C3_Witness ==
  /\ activeFilter = batu
  /\ searchQuery = <<"K">>
  /\ materials = <<MatA2, MatB>>
  /\ filteredMaterials = <<MatA2>>

C5_FailedRefreshKeepsMaterials ==
  [][\A i \in Positions(inflight) :
       (inflight[i] = "refreshLibrary" /\ LoadEndsInError(i))
         => materials' = materials]_vars

(***************************************************************************)
(* C6: right after a load has failed the loading indicator is hidden, the  *)
(* display region shows the error placeholder and isLoading is false.      *)
(***************************************************************************)
C6_FailureHidesLoading ==
  [][\A i \in Positions(inflight) :
       LoadEndsInError(i) =>
         /\ loadingDisplay' = "none"
         /\ materialsGrid' = ErrorState
         /\ ~isLoading']_vars

(***************************************************************************)
(* C7: updateMaterial with a malformed payload changes neither materials,  *)
(* filteredMaterials, activeFilter nor searchQuery and shows no            *)
(* notification.                                                           *)
(***************************************************************************)
C7_MalformedPayloadIsDropped ==
  [][\A text \in Payloads :
       (updateMaterial(text) /\ Malformed(text)) =>
         UNCHANGED <<materials, filteredMaterials, activeFilter, searchQuery,
                     toasts>>]_vars

C9_Original ==
  (filteredMaterials = <<>> /\ materialsGrid # InitialMarkup)
    => materialsGrid = EmptyState

(***************************************************************************)
(* C9 amended: whenever filteredMaterials is empty the display region      *)
(* shows the empty-state placeholder with the count 0, unless it still     *)
(* shows the page's markup or the error placeholder of a failed load; it   *)
(* never shows a container of cards.                                       *)
(***************************************************************************)
C9_EmptyListShowsPlaceholder ==
  filteredMaterials = <<>> =>
    \/ materialsGrid = EmptyState /\ materialCount = 0
    \/ materialsGrid = InitialMarkup
    \/ materialsGrid = ErrorState

\* a search that matches no material: empty list, placeholder, count 0
C9_Witness ==
  /\ materials = <<MatA, MatB>>
  /\ activeFilter = all
  /\ searchQuery = <<" ", "K">>
  /\ filteredMaterials = <<>>
  /\ materialsGrid = EmptyState
  /\ materialCount = 0

(***************************************************************************)
(* C10: once the count has been written, it equals the length of           *)
(* filteredMaterials and the number of cards in the display region (read   *)
(* over lists of Materials).                                               *)
(***************************************************************************)
C10_CountMatchesCards ==
  (materialCount # -1 /\ AllMaterials(materials)
     /\ AllMaterials(filteredMaterials))
    => /\ materialCount = Len(filteredMaterials)
       /\ materialCount = Len(materialsGrid.cards)

(***************************************************************************)
(* C11: in every state in which a catalog load is in flight, isLoading is  *)
(* true and the loading indicator is shown; isLoading is false only when   *)
(* no load is in flight.                                                   *)
(***************************************************************************)
C11_LoadingWhileInFlight ==
  /\ inflight # <<>> => (isLoading /\ loadingDisplay = "flex")
  /\ ~isLoading => inflight = <<>>

\* the filter bar the materials ms call for: "all", then one control for
\* each category of the allow-list that is a tag of some entry
BarOf(ms) ==
  <<all>> \o
    Pick(<<kayu, batik, batu, bambu, rotan>>,
         {c \in 1..5 :
            \E i \in Positions(ms) :
              HasTag(ms[i], <<kayu, batik, batu, bambu, rotan>>[c])})

\* the filters of the controls of the bar, in the order of the bar
FiltersOf(buttons) == [i \in Positions(buttons) |-> buttons[i].filter]

(***************************************************************************)
(* C12: after every successful load the filter bar is the "all" control    *)
(* followed by exactly one control for each allow-list category that       *)
(* occurs among the tags of the materials, in allow-list order.            *)
(***************************************************************************)
C12_FilterBarMatchesCategories ==
  [][\A i \in Positions(inflight), d \in Docs :
       (loadSucceeds(i, d) /\ ~LoadEndsInError(i))
         => FiltersOf(filterButtons') = BarOf(materials')]_vars

(***************************************************************************)
(* C13: in every reachable state exactly one filter control is active, and *)
(* it is the control whose filter is activeFilter.                         *)
(***************************************************************************)
C13_OneActiveControl ==
  /\ Cardinality({i \in Positions(filterButtons) : filterButtons[i].active}) = 1
  /\ \A i \in Positions(filterButtons) :
       filterButtons[i].active <=> filterButtons[i].filter = activeFilter

(***************************************************************************)
(* C14: at most one debounce timer is pending at any time; an input event  *)
(* recomputes nothing, cancels the pending timer and leaves exactly the    *)
(* timer it starts; when the timer fires, the one recomputation uses the   *)
(* text the input has then, and no timer is left pending.                  *)
(***************************************************************************)
C14_DebounceCancelsAndReschedules ==
  /\ [](Cardinality(timers) <= 1)
  /\ [][\A text \in Queries :
          input(text) =>
            /\ timers' = {timeout'}
            /\ timeout' # 0
            /\ UNCHANGED <<searchQuery, filteredMaterials, materialsGrid,
                           materialCount>>]_vars
  /\ [][\A t \in timers :
          later(t) => (searchQuery' = searchInput /\ timers' = {})]_vars

\* the timer has fired after "K" was typed, and the list is the result of
\* that one recomputation
C14_Witness ==
  /\ timers = {}
  /\ searchInput = <<"K">>
  /\ searchQuery = <<"K">>
  /\ activeFilter = all
  /\ materials = <<MatA, MatB>>
  /\ filteredMaterials = <<MatA>>

(***************************************************************************)
(* C15: right after the Escape handler, with or without a pending debounce *)
(* timer, searchQuery and the input text are empty and filteredMaterials   *)
(* is the tag filter's output for materials and activeFilter (read over    *)
(* lists of Materials).                                                    *)
(***************************************************************************)
C15_EscapeClearsAtOnce ==
  [][(escape /\ AllMaterials(materials)) =>
       /\ searchQuery' = <<>>
       /\ searchInput' = <<>>
       /\ filteredMaterials' = WithTag(materials', activeFilter')]_vars

\* Escape was pressed while the timer of a typed query was pending
C15_Witness ==
  /\ timers # {}
  /\ searchInput = <<>>
  /\ searchQuery = <<>>
  /\ activeFilter = kayu
  /\ materials = <<MatA, MatB>>
  /\ filteredMaterials = <<MatA>>

\* the ids of the timers of the toasts that are shown
ToastTimerIds == {toastTimers[i] : i \in Positions(toastTimers)}

\* seq without its element at position p
Without(seq, p) == Pick(seq, Positions(seq) \ {p})

\* a step that asks for a notification
Notifies ==
  \/ \E type \in {"success", "error"} : showMessage(type)
  \/ \E id \in ApplyIds : applyMaterial(id, FALSE)
  \/ \E id \in ApplyIds :
       applyMaterial(id, TRUE) /\ \A i \in Positions(materials) : materials[i].id # id

(***************************************************************************)
(* C16: each notification request adds exactly one notification at the end *)
(* of the stack and leaves the others and their timers as they are; the    *)
(* timer of a notification removes that notification and no other; and     *)
(* every notification is eventually removed, given that timers fire.       *)
(***************************************************************************)
C16_ToastsStackAndExpire ==
  /\ [][Notifies =>
          /\ Len(toasts') = Len(toasts) + 1
          /\ Without(toasts', Len(toasts')) = toasts
          /\ Without(toastTimers', Len(toastTimers')) = toastTimers
          /\ toastTimers'[Len(toastTimers')] \notin ToastTimerIds]_vars
  /\ [][\A type \in {"success", "error"} :
          showMessage(type) => toasts'[Len(toasts')] = type]_vars
  /\ [][\A k \in 1..MaxToasts :
          toastTimer(k) =>
            \E p \in Positions(toastTimers) :
              /\ toastTimers[p] = k
              /\ toasts' = Without(toasts, p)
              /\ toastTimers' = Without(toastTimers, p)]_vars
  /\ \A k \in 1..MaxToasts :
       (k \in ToastTimerIds) ~> (k \notin ToastTimerIds)

\* two notifications are stacked; the older of them was raised before a
\* third one, since removed, and stayed when that one was removed
C16_Witness ==
  /\ toasts = <<"error", "success">>
  /\ toastTimers = <<2, 1>>

\* the materials of a catalog document
DocMaterials(d) == IF d.has THEN d.materials ELSE <<>>

(***************************************************************************)
(* C17: a load whose body parses leaves materials equal to the materials   *)
(* of the document, whatever materials was before, and to the empty list   *)
(* when the document has no materials; that load ends as loaded, with the  *)
(* empty-state placeholder, not with the error placeholder.                *)
(***************************************************************************)
C17_LoadReplacesWholesale ==
  [][\A i \in Positions(inflight), d \in Docs :
       loadSucceeds(i, d) =>
         /\ materials' = DocMaterials(d)
         /\ ~d.has =>
              /\ materials' = <<>>
              /\ materialsGrid' = EmptyState
              /\ ~isLoading']_vars

\* a refresh delivered a document without materials after a load that had
\* brought the categories kayu and batu
C17_Witness ==
  /\ loads = 2
  /\ inflight = <<>>
  /\ materials = <<>>
  /\ materialsGrid = EmptyState
  /\ ~isLoading
  /\ Len(filterButtons) = 3

(***************************************************************************)
(* C18: where a refresh has been issued, a load that is processed, the     *)
(* earlier or the later one, leaves materials equal to the document it     *)
(* delivers, and every other load stays in flight; so the load processed   *)
(* last decides materials.                                                 *)
(***************************************************************************)
C18_LastProcessedLoadWins ==
  [][\A i \in Positions(inflight), d \in Docs :
       (loads > 1 /\ loadSucceeds(i, d) /\ ~LoadEndsInError(i)) =>
         /\ materials' = DocMaterials(d)
         /\ inflight' = Without(inflight, i)]_vars

\* the refresh has been processed while the first load is still in flight
C18_Witness ==
  /\ loads = 2
  /\ inflight = <<"DOMContentLoaded">>
  /\ materials = <<MatA, MatB>>
  /\ ~isLoading

(***************************************************************************)
(* C19: whenever no debounce timer is pending, searchQuery is the text of  *)
(* the search input.                                                       *)
(***************************************************************************)
C19_QueryIsInputWhenIdle ==
  timers = {} => searchQuery = searchInput

\* the timer has fired and the query is the text that was typed
C19_Witness ==
  /\ timers = {}
  /\ searchInput = <<" ">>
  /\ searchQuery = <<" ">>

\* the ids of the entries are pairwise distinct
DistinctIds(ms) ==
  \A i, j \in Positions(ms) : ms[i].id = ms[j].id => i = j

(***************************************************************************)
(* C20: updateMaterial with a Material keeps the ids of materials pairwise *)
(* distinct.                                                               *)
(***************************************************************************)
C20_UpsertKeepsIdsDistinct ==
  [][\A text \in Payloads :
       (updateMaterial(text) /\ ~Malformed(text) /\ DistinctIds(materials))
         => DistinctIds(materials')]_vars

\* the Material "a" was appended to an empty catalog, once
C20_Witness ==
  /\ materials = <<MatA2>>
  /\ filteredMaterials = <<MatA2>>
  /\ materialCount = 1

====
